---- MODULE Spec2Model ----
(***************************************************************************)
(* Model of homework2/homework/models.py: the four classifier variants,    *)
(* the registry model_factory, calculate_model_size_mb, save_model and     *)
(* load_model, and the forward passes.                                     *)
(*                                                                         *)
(* A tensor is modelled by its shape and a content tag (two tensors are    *)
(* element-wise equal iff shape and tag agree); an activation flowing      *)
(* through a forward pass is modelled by its shape and the symbolic term   *)
(* that computed it.                                                       *)
(***************************************************************************)
EXTENDS Integers, Sequences, FiniteSets, TLC

VARIABLES
    model_factory,  \* the registry: <<name, class>> in declaration order
    files,          \* the model directory: registry name -> checkpoint <name>.th
    cur,            \* the model the caller holds
    res,            \* the last call and its outcome
    fwd             \* the forward pass in progress

vars == <<model_factory, files, cur, res, fwd>>

(***************************************************************************)
(* Bounds of the model.                                                    *)
(***************************************************************************)
\* number of distinct tensor contents a (random) initialisation can draw
NumVals == 2
\* largest batch size fed to a forward pass
MaxBatch == 2
\* largest h, w and num_classes of the size-estimate sweep
MaxDim == 5

Vals == 1..NumVals

(***************************************************************************)
(* Program constants.                                                      *)
(***************************************************************************)
DefaultH == 64
DefaultW == 64
DefaultNumClasses == 6
Channels == 3
MLPHiddenDim == 128
DeepHiddenDim == 170
DeepNumLayers == 16
\* variant: a hidden width of 200 in the residual classifier
ResidualHiddenDimWide == 2 * 100
ResidualHiddenDim == 180
ResidualNumLayers == 7
BytesPerParam == 4
BudgetMB == 10
KiB == 1024

\* constructor keyword arguments: the defaults of every __init__
DefaultKwargs == [h |-> DefaultH, w |-> DefaultW, num_classes |-> DefaultNumClasses]

\* keyword arguments a caller passes: the defaults, and two 1x1-image settings
\* that put LinearClassifier exactly on and one class above the 10 MB budget
\* (4 * 655360 = 2621440 parameters)
ExactBudgetKwargs == [h |-> 1, w |-> 1, num_classes |-> 655360]
OverBudgetKwargs == [h |-> 1, w |-> 1, num_classes |-> 655361]
Kwargs == { DefaultKwargs, ExactBudgetKwargs, OverBudgetKwargs }

(***************************************************************************)
(* Layers (torch.nn primitives used by the constructors).                  *)
(***************************************************************************)
Linear(in, out) == [type |-> "Linear", in_features |-> in, out_features |-> out]
ReLU == [type |-> "ReLU", in_features |-> 0, out_features |-> 0]
GELU == [type |-> "GELU", in_features |-> 0, out_features |-> 0]

\* range(num_layers - 2) repetitions of the pair <<a, b>>
RECURSIVE Repeat(_, _)
Repeat(n, pair) == IF n <= 0 THEN << >> ELSE pair \o Repeat(n - 1, pair)

\* variant: the three channels left out of the input width
InputDimNoChannels(kw) == kw.h * kw.w
\* input_dim = 3 * h * w
InputDim(kw) == Channels * kw.h * kw.w

\* LinearClassifier.__init__: self.linear
LinearClassifierLayers(kw) == << Linear(InputDim(kw), kw.num_classes) >>

\* MLPClassifier.__init__: self.mlp
MLPClassifierLayers(kw) ==
    << Linear(InputDim(kw), MLPHiddenDim), ReLU, Linear(MLPHiddenDim, kw.num_classes) >>

\* MLPClassifierDeep.__init__: self.mlp
MLPClassifierDeepLayers(kw) ==
    << Linear(InputDim(kw), DeepHiddenDim), GELU >>
    \o Repeat(DeepNumLayers - 2, << Linear(DeepHiddenDim, DeepHiddenDim), ReLU >>)
    \o << Linear(DeepHiddenDim, kw.num_classes) >>

\* MLPClassifierDeepResidual.__init__: input_layer, hidden_layers, output_layer
ResidualInputLayer(kw) == Linear(InputDim(kw), ResidualHiddenDim)
ResidualBlock ==
    << Linear(ResidualHiddenDim, ResidualHiddenDim), ReLU,
       Linear(ResidualHiddenDim, ResidualHiddenDim) >>
ResidualHiddenLayers == [i \in 1..(ResidualNumLayers - 2) |-> ResidualBlock]
ResidualOutputLayer(kw) == Linear(ResidualHiddenDim, kw.num_classes)

(***************************************************************************)
(* Named parameters, in registration order.  Sequential and ModuleList     *)
(* number their children from 0.                                           *)
(***************************************************************************)
\* variant: a linear layer without its bias
LinearParamsNoBias(prefix, l) ==
    << [name |-> prefix \o ".weight", shape |-> << l.out_features, l.in_features >>] >>
\* nn.Linear owns weight (out, in) and bias (out)
LinearParams(prefix, l) ==
    << [name |-> prefix \o ".weight", shape |-> << l.out_features, l.in_features >>],
       [name |-> prefix \o ".bias", shape |-> << l.out_features >>] >>

RECURSIVE SeqParams(_, _, _)
SeqParams(prefix, layers, i) ==
    IF i > Len(layers) THEN << >>
    ELSE (IF layers[i].type = "Linear"
          THEN LinearParams(prefix \o "." \o ToString(i - 1), layers[i])
          ELSE << >>)
         \o SeqParams(prefix, layers, i + 1)

RECURSIVE ModuleListParams(_, _, _)
ModuleListParams(prefix, blocks, i) ==
    IF i > Len(blocks) THEN << >>
    ELSE SeqParams(prefix \o "." \o ToString(i - 1), blocks[i], 1)
         \o ModuleListParams(prefix, blocks, i + 1)

\* the classes of models.py that own parameters, and two more a caller can hand
\* to save_model: ClassificationLoss (an nn.Module without parameters) and
\* MLPWithLinear, a subclass of two registered classes
Classes ==
    { "LinearClassifier", "MLPClassifier", "MLPClassifierDeep",
      "MLPClassifierDeepResidual" }
CallerClasses == { "MLPWithLinear", "ClassificationLoss" }

\* model.named_parameters() right after cls(**kw)
NamedParameters(cls, kw) ==
    CASE cls = "LinearClassifier" -> LinearParams("linear", LinearClassifierLayers(kw)[1])
      [] cls = "MLPClassifier" -> SeqParams("mlp", MLPClassifierLayers(kw), 1)
      [] cls = "MLPClassifierDeep" -> SeqParams("mlp", MLPClassifierDeepLayers(kw), 1)
      [] cls = "MLPClassifierDeepResidual" ->
            LinearParams("input_layer", ResidualInputLayer(kw))
            \o ModuleListParams("hidden_layers", ResidualHiddenLayers, 1)
            \o LinearParams("output_layer", ResidualOutputLayer(kw))
      \* class MLPWithLinear(MLPClassifier, LinearClassifier): super().__init__()
      \* in MLPClassifier.__init__ runs LinearClassifier.__init__() with its
      \* defaults, then self.mlp is built
      [] cls = "MLPWithLinear" ->
            LinearParams("linear", LinearClassifierLayers(DefaultKwargs)[1])
            \o SeqParams("mlp", MLPClassifierLayers(kw), 1)
      [] OTHER -> << >>

\* isinstance(model, m)
IsInstance(cls, m) ==
    \/ cls = m
    \/ cls = "MLPWithLinear" /\ m \in {"MLPClassifier", "LinearClassifier"}

\* a model instance: its class, the constructor arguments baked in, and its
\* parameters name -> [shape, val]; v is the draw of the random initialisation
Construct(cls, kw, v) ==
    LET named == NamedParameters(cls, kw)
        shapeOf(k) == named[CHOOSE i \in DOMAIN named : named[i].name = k].shape
    IN [cls |-> cls, kw |-> kw,
        params |-> [k \in { named[i].name : i \in DOMAIN named } |->
                       [shape |-> shapeOf(k), val |-> v]]]

\* the order in which model.parameters() yields the parameters; it is fixed by
\* the class (the constructor arguments change shapes only)
ParameterNames(cls) ==
    LET named == NamedParameters(cls, DefaultKwargs)
    IN [i \in DOMAIN named |-> named[i].name]

NoKwargs == [h |-> 0, w |-> 0, num_classes |-> 0]
EmptyParams == [k \in {} |-> [shape |-> << >>, val |-> 0]]
NoModel == [cls |-> "None", kw |-> NoKwargs, params |-> EmptyParams]

\* model.state_dict()
StateDict(model) == model.params

\* the constructor calls of the persistence model, evaluated once
ConstructTable ==
    [c \in Classes \cup CallerClasses, kw \in Kwargs, v \in Vals |-> Construct(c, kw, v)]

(***************************************************************************)
(* calculate_model_size_mb                                                 *)
(***************************************************************************)
RECURSIVE Prod(_, _)
Prod(s, i) == IF i > Len(s) THEN 1 ELSE s[i] * Prod(s, i + 1)

\* p.numel()
Numel(p) == Prod(p.shape, 1)

RECURSIVE SumNumel(_, _, _)
SumNumel(params, names, i) ==
    IF i > Len(names) THEN 0
    ELSE Numel(params[names[i]]) + SumNumel(params, names, i + 1)

\* sum(p.numel() for p in model.parameters())
SumOfNumel(model) == SumNumel(model.params, ParameterNames(model.cls), 1)

\* the same sum, evaluated once per class and constructor arguments: numel()
\* reads shapes only, and the shapes of an instance are those its constructor
\* gave it (load_state_dict copies a tensor only into one of the same shape)
SumOfNumelTable ==
    [c \in Classes \cup CallerClasses \cup {"None"}, kw \in Kwargs \cup {NoKwargs} |->
        SumOfNumel([cls |-> c, kw |-> kw, params |-> Construct(c, kw, 1).params])]

NumParameters(model) ==
    IF model.kw \in Kwargs \cup {NoKwargs}
    THEN SumOfNumelTable[model.cls, model.kw]
    ELSE SumOfNumel(model)

\* sum(...) * 4 / 1024 / 1024, kept as the exact rational num/den: the two
\* divisions by a power of two are exact in binary floating point
calculate_model_size_mb(model) ==
    [num |-> NumParameters(model) * BytesPerParam, den |-> KiB * KiB]

NoSize == [num |-> 0, den |-> 1]

\* variant: the budget itself rejected
TooLargeOrEqual(size) == size.num >= BudgetMB * size.den
\* model_size_mb > 10
TooLarge(size) == size.num > BudgetMB * size.den

(***************************************************************************)
(* The registry and the checkpoint files.                                  *)
(***************************************************************************)
Registry ==
    << [name |-> "linear", cls |-> "LinearClassifier"],
       [name |-> "mlp", cls |-> "MLPClassifier"],
       [name |-> "mlp_deep", cls |-> "MLPClassifierDeep"],
       [name |-> "mlp_deep_residual", cls |-> "MLPClassifierDeepResidual"] >>

Names == { Registry[i].name : i \in DOMAIN Registry }

\* model_factory[model_name]; "" stands for the KeyError
Lookup(factory, name) ==
    IF \E i \in DOMAIN factory : factory[i].name = name
    THEN factory[CHOOSE i \in DOMAIN factory : factory[i].name = name].cls
    ELSE ""

NoFile == [exists |-> FALSE, data |-> EmptyParams]
FileOf(sd) == [exists |-> TRUE, data |-> sd]

\* f"{n}.th"
FileName(n) == n \o ".th"

\* the outcome of a call: what it raised or returned, the size load_model
\* computed, and the parameters load_state_dict had copied into the instance
Outcome(op, name, ww, kw, kind, msg, size, copied) ==
    [op |-> op, name |-> name, with_weights |-> ww, kw |-> kw, kind |-> kind,
     msg |-> msg, size |-> size, copied |-> copied]

NoCall == Outcome("none", "", FALSE, NoKwargs, "none", "", NoSize, {})

(***************************************************************************)
(* save_model                                                              *)
(***************************************************************************)
\* variant: the last matching entry wins
RECURSIVE SaveNameLast(_, _, _)
SaveNameLast(factory, model, i) ==
    IF i > Len(factory) THEN ""
    ELSE LET later == SaveNameLast(factory, model, i + 1)
         IN IF later # "" THEN later
            ELSE IF IsInstance(model.cls, factory[i].cls) THEN factory[i].name
            ELSE ""
\* for n, m in model_factory.items(): if isinstance(model, m): -> n
\* ("" when the loop ends without a match)
RECURSIVE SaveName(_, _, _)
SaveName(factory, model, i) ==
    IF i > Len(factory) THEN ""
    ELSE IF IsInstance(model.cls, factory[i].cls) THEN factory[i].name
    ELSE SaveName(factory, model, i + 1)

\* variant: the path ignores n
TorchSaveEverywhere(fs, n, sd) == [m \in DOMAIN fs |-> FileOf(sd)]
\* torch.save(model.state_dict(), .../f"{n}.th")
TorchSave(fs, n, sd) == [fs EXCEPT ![n] = FileOf(sd)]

save_model(factory, fs, model) ==
    LET n == SaveName(factory, model, 1)
    IN IF n # ""
       THEN [files |-> TorchSave(fs, n, StateDict(model)),
             out |-> Outcome("save_model", n, FALSE, model.kw, "return",
                             FileName(n), NoSize, {})]
       ELSE [files |-> fs,
             out |-> Outcome("save_model", "", FALSE, model.kw, "ValueError",
                             "Model type '" \o model.cls \o "' not supported",
                             NoSize, {})]

(***************************************************************************)
(* load_model                                                              *)
(***************************************************************************)
\* variants of load_state_dict: one that copies nothing, one that is not strict
LoadStateDictNoCopy(r, sd) ==
    [model |-> r, copied |-> {},
     ok |-> DOMAIN sd = DOMAIN r.params
            /\ \A k \in DOMAIN sd : sd[k].shape = r.params[k].shape]
LoadStateDictLenient(r, sd) ==
    LET mine == DOMAIN r.params
        copied == { k \in mine \cap DOMAIN sd : sd[k].shape = r.params[k].shape }
    IN [model |-> [r EXCEPT !.params =
                      [k \in mine |-> IF k \in copied THEN sd[k] ELSE r.params[k]]],
        copied |-> copied,
        ok |-> TRUE]

\* r.load_state_dict(sd), strict: every parameter of r whose name is in sd with
\* the same shape is copied in place; a missing name, an unexpected name or a
\* size mismatch is collected and raised as one RuntimeError after the copies
LoadStateDict(r, sd) ==
    LET mine == DOMAIN r.params
        copied == { k \in mine \cap DOMAIN sd : sd[k].shape = r.params[k].shape }
    IN [model |-> [r EXCEPT !.params =
                      [k \in mine |-> IF k \in copied THEN sd[k] ELSE r.params[k]]],
        copied |-> copied,
        ok |-> copied = mine /\ DOMAIN sd = mine]

\* torch.load(model_path, map_location="cpu"): the mapping torch.save wrote
TorchLoad(fs, name) == fs[name].data

\* variant: the existence check always passes
PathExistsAlways(fs, name) == TRUE
\* model_path.exists()
PathExists(fs, name) == fs[name].exists

\* the size check that ends load_model (the size the message prints is kept in
\* the outcome's size field)
SizeCheck(name, ww, kw, r, copied) ==
    LET model_size_mb == calculate_model_size_mb(r)
    IN IF TooLarge(model_size_mb)
       THEN [model |-> NoModel,
             out |-> Outcome("load_model", name, ww, kw, "AssertionError",
                             name \o " is too large", model_size_mb, copied)]
       ELSE [model |-> r,
             out |-> Outcome("load_model", name, ww, kw, "return", "",
                             model_size_mb, copied)]

Raise(name, ww, kw, kind, msg, copied) ==
    [model |-> NoModel,
     out |-> Outcome("load_model", name, ww, kw, kind, msg, NoSize, copied)]

load_model(factory, fs, name, ww, kw, v) ==
    LET cls == Lookup(factory, name)
        r == ConstructTable[cls, kw, v]
    IN IF cls = "" THEN Raise(name, ww, kw, "KeyError", name, {})
       ELSE IF ~ww THEN SizeCheck(name, ww, kw, r, {})
       ELSE IF ~PathExists(fs, name)
       THEN Raise(name, ww, kw, "AssertionError", FileName(name) \o " not found", {})
       ELSE LET l == LoadStateDict(r, TorchLoad(fs, name))
            IN IF ~l.ok
               THEN Raise(name, ww, kw, "AssertionError",
                          "Failed to load " \o FileName(name)
                          \o ", make sure the default model arguments are set correctly",
                          l.copied)
               ELSE SizeCheck(name, ww, kw, l.model, l.copied)

(***************************************************************************)
(* The callers: train.py and the grader.                                   *)
(***************************************************************************)
\* a name a caller may pass that is not in the registry
UnknownName == "cnn"

\* models a caller builds without load_model: an instance of a subclass of two
\* registered classes, the loss module, and a linear classifier over the budget
CallerModels ==
    { <<"MLPWithLinear", DefaultKwargs>>,
      <<"ClassificationLoss", DefaultKwargs>>,
      <<"LinearClassifier", OverBudgetKwargs>> }

(***************************************************************************)
(* Forward passes.  An activation is its shape and the term computing it.  *)
(***************************************************************************)
Term(op, key, args) == [op |-> op, key |-> key, args |-> args]
NoAct == [shape |-> << >>, term |-> Term("none", "", << >>)]

\* an exception raised inside a forward pass
RuntimeError(key) == [shape |-> << >>, term |-> Term("RuntimeError", key, << >>)]
Raised(a) == a.term.op = "RuntimeError"

\* the image batch x of shape (b, 3, H, W)
Image(b, H, W) == [shape |-> << b, Channels, H, W >>, term |-> Term("x", "", << >>)]

\* x.view(x.size(0), -1)
View(x) ==
    [shape |-> << x.shape[1], Prod(x.shape, 1) \div x.shape[1] >>,
     term |-> Term("view", "", << x.term >>)]

Last(s) == s[Len(s)]

\* nn.Linear.forward: the last dimension must be in_features
ApplyLinear(key, l, a) ==
    IF Raised(a) THEN a
    ELSE IF Last(a.shape) # l.in_features THEN RuntimeError(key)
    ELSE [shape |-> [a.shape EXCEPT ![Len(a.shape)] = l.out_features],
          term |-> Term("Linear", key, << a.term >>)]

\* nn.ReLU.forward and nn.GELU.forward: element-wise
ApplyActivation(type, a) ==
    IF Raised(a) THEN a ELSE [shape |-> a.shape, term |-> Term(type, "", << a.term >>)]

ApplyLayer(key, l, a) ==
    IF l.type = "Linear" THEN ApplyLinear(key, l, a) ELSE ApplyActivation(l.type, a)

\* nn.Sequential.forward from child i on
RECURSIVE ApplySequential(_, _, _, _)
ApplySequential(prefix, layers, a, i) ==
    IF i > Len(layers) THEN a
    ELSE ApplySequential(prefix, layers,
                         ApplyLayer(prefix \o "." \o ToString(i - 1), layers[i], a), i + 1)

\* out + residual (equal shapes add element-wise; a last dimension of 1 broadcasts)
Add(a, b) ==
    IF Raised(a) THEN a
    ELSE IF Raised(b) THEN b
    ELSE IF a.shape = b.shape \/ (Len(a.shape) = Len(b.shape) /\ Last(b.shape) = 1)
    THEN [shape |-> a.shape, term |-> Term("add", "", << a.term, b.term >>)]
    ELSE IF Len(a.shape) = Len(b.shape) /\ Last(a.shape) = 1
    THEN [shape |-> b.shape, term |-> Term("add", "", << a.term, b.term >>)]
    ELSE RuntimeError("add")

\* variant: the shortcut is not added
AddResidualNoShortcut(out, residual) == ApplyActivation("ReLU", out)
\* self.activation(out + residual)
AddResidual(out, residual) == ApplyActivation("ReLU", Add(out, residual))

\* the chain a non-residual forward applies to the flattened batch
ChainOf(model) ==
    CASE model.cls = "LinearClassifier" -> LinearClassifierLayers(model.kw)
      [] model.cls = "MLPClassifier" -> MLPClassifierLayers(model.kw)
      [] model.cls = "MLPClassifierDeep" -> MLPClassifierDeepLayers(model.kw)
      [] OTHER -> << >>

ChainKey(model, i) ==
    IF model.cls = "LinearClassifier" THEN "linear" ELSE "mlp." \o ToString(i - 1)

\* image sizes a caller feeds
ImageSizes == { << kw.h, kw.w >> : kw \in Kwargs }

\* fwd.img keeps the batch as it was passed (forward rebinds x)
Idle ==
    [pc |-> "idle", img |-> NoAct, x |-> NoAct, out |-> NoAct, residual |-> NoAct,
     i |-> 0]

\* model(x) is called
ForwardCall ==
    /\ fwd.pc = "idle"
    /\ cur.cls \in Classes
    /\ \E b \in 1..MaxBatch, hw \in ImageSizes :
          fwd' = [Idle EXCEPT !.pc = "view", !.img = Image(b, hw[1], hw[2]),
                              !.x = Image(b, hw[1], hw[2])]
    /\ UNCHANGED <<model_factory, files, cur, res>>

\* x = x.view(x.size(0), -1)
ForwardView ==
    /\ fwd.pc = "view"
    /\ fwd' = [fwd EXCEPT !.x = View(fwd.x), !.out = View(fwd.x), !.i = 1,
                          !.pc = IF cur.cls = "MLPClassifierDeepResidual"
                                 THEN "input_layer" ELSE "chain"]
    /\ UNCHANGED <<model_factory, files, cur, res>>

\* self.linear(x) / self.mlp(x): the next module of the chain
ForwardChain ==
    /\ fwd.pc = "chain"
    /\ LET layers == ChainOf(cur)
           out == ApplyLayer(ChainKey(cur, fwd.i), layers[fwd.i], fwd.out)
       IN fwd' = [fwd EXCEPT !.out = out, !.i = fwd.i + 1,
                             !.pc = IF Raised(out) THEN "raised"
                                    ELSE IF fwd.i = Len(layers) THEN "done"
                                    ELSE "chain"]
    /\ UNCHANGED <<model_factory, files, cur, res>>

\* out = self.activation(self.input_layer(x))
ResidualInput ==
    /\ fwd.pc = "input_layer"
    /\ LET out == ApplyActivation("ReLU",
                      ApplyLinear("input_layer", ResidualInputLayer(cur.kw), fwd.x))
       IN fwd' = [fwd EXCEPT !.out = out,
                             !.pc = IF Raised(out) THEN "raised" ELSE "loop"]
    /\ UNCHANGED <<model_factory, files, cur, res>>

\* for layer in self.hidden_layers: residual = out
ResidualLoop ==
    /\ fwd.pc = "loop"
    /\ fwd' = IF fwd.i <= Len(ResidualHiddenLayers)
              THEN [fwd EXCEPT !.residual = fwd.out, !.pc = "layer"]
              ELSE [fwd EXCEPT !.pc = "output_layer"]
    /\ UNCHANGED <<model_factory, files, cur, res>>

\* out = layer(out)
ResidualLayer ==
    /\ fwd.pc = "layer"
    /\ LET out == ApplySequential("hidden_layers." \o ToString(fwd.i - 1),
                                  ResidualHiddenLayers[fwd.i], fwd.out, 1)
       IN fwd' = [fwd EXCEPT !.out = out,
                             !.pc = IF Raised(out) THEN "raised" ELSE "activation"]
    /\ UNCHANGED <<model_factory, files, cur, res>>

\* out = self.activation(out + residual)
ResidualActivation ==
    /\ fwd.pc = "activation"
    /\ LET out == AddResidual(fwd.out, fwd.residual)
       IN fwd' = [fwd EXCEPT !.out = out, !.i = fwd.i + 1,
                             !.pc = IF Raised(out) THEN "raised" ELSE "loop"]
    /\ UNCHANGED <<model_factory, files, cur, res>>

\* return self.output_layer(out)
ResidualOutput ==
    /\ fwd.pc = "output_layer"
    /\ LET out == ApplyLinear("output_layer", ResidualOutputLayer(cur.kw), fwd.out)
       IN fwd' = [fwd EXCEPT !.out = out,
                             !.pc = IF Raised(out) THEN "raised" ELSE "done"]
    /\ UNCHANGED <<model_factory, files, cur, res>>

\* the call has returned its logits or raised
ForwardEnd ==
    /\ fwd.pc \in {"done", "raised"}
    /\ fwd' = Idle
    /\ UNCHANGED <<model_factory, files, cur, res>>

Init ==
    /\ model_factory = Registry
    /\ files = [n \in Names |-> NoFile]
    /\ cur = NoModel
    /\ res = NoCall
    /\ fwd = Idle

\* model = SomeClass(**kw)
NewModel ==
    \E c \in CallerModels, v \in Vals :
        /\ cur' = ConstructTable[c[1], c[2], v]
        /\ res' = Outcome("construct", "", FALSE, c[2], "return", "", NoSize, {})
        /\ UNCHANGED <<model_factory, files, fwd>>

\* save_model(model)
SaveModel ==
    /\ fwd.pc = "idle"
    /\ cur # NoModel
    /\ LET s == save_model(model_factory, files, cur)
       IN /\ files' = s.files
          /\ res' = s.out
    /\ UNCHANGED <<model_factory, cur, fwd>>

\* model = load_model(name, with_weights, **kw); a call that raises leaves the
\* caller without a model
LoadModel(name, ww, kw, v) ==
    /\ fwd.pc = "idle"
    /\ LET l == load_model(model_factory, files, name, ww, kw, v)
       IN /\ res' = l.out
          /\ cur' = l.model
    /\ UNCHANGED <<model_factory, files, fwd>>

\* with weights the draw of the initialisation never shows: the call ends with
\* every parameter overwritten or with the instance discarded
Load ==
    \E name \in Names, ww \in BOOLEAN, kw \in Kwargs :
        \E v \in (IF ww THEN {1} ELSE Vals) : LoadModel(name, ww, kw, v)

LoadUnknown ==
    \E ww \in BOOLEAN : LoadModel(UnknownName, ww, DefaultKwargs, 1)

Next == NewModel \/ SaveModel \/ Load \/ LoadUnknown

Spec == Init /\ [][Next]_vars

\* the grader: load a model by name, run it on batches
NextForward ==
    \/ Load
    \/ ForwardCall \/ ForwardView \/ ForwardChain
    \/ ResidualInput \/ ResidualLoop \/ ResidualLayer \/ ResidualActivation
    \/ ResidualOutput \/ ForwardEnd

SpecForward == Init /\ [][NextForward]_vars

\* the size estimate over a sweep of constructor arguments
SweepKwargs ==
    { [h |-> h, w |-> w, num_classes |-> c] : h \in 1..MaxDim, w \in 1..MaxDim, c \in 1..MaxDim }

InitSize ==
    /\ model_factory = Registry
    /\ files = [n \in Names |-> NoFile]
    /\ cur = NoModel
    /\ \E name \in Names, kw \in SweepKwargs :
          res = Outcome("input", name, FALSE, kw, "none", "", NoSize, {})
    /\ fwd = Idle

\* calculate_model_size_mb(model_factory[name](**kw))
SizeOfModel ==
    /\ res.op = "input"
    /\ \E v \in Vals :
          LET model == Construct(Lookup(model_factory, res.name), res.kw, v)
          IN /\ cur' = model
             /\ res' = Outcome("calculate_model_size_mb", res.name, FALSE, res.kw,
                               "return", "", calculate_model_size_mb(model), {})
    /\ UNCHANGED <<model_factory, files, fwd>>

NextSize == SizeOfModel

SpecSize == InitSize /\ [][NextSize]_vars


(***************************************************************************)
(* Properties.                                                             *)
(***************************************************************************)
Budget == BudgetMB * KiB * KiB

\* the number of elements of a parameter mapping, each name counted once
RECURSIVE ElementCountOver(_, _)
ElementCountOver(params, keys) ==
    IF keys = {} THEN 0
    ELSE LET k == CHOOSE x \in keys : TRUE
             s == params[k].shape
         IN (IF Len(s) = 1 THEN s[1] ELSE s[1] * s[2])
            + ElementCountOver(params, keys \ {k})
ElementCount(params) == ElementCountOver(params, DOMAIN params)

\* the evaluated-once element counts agree with the sum over the parameters
\* the model holds
SumOfNumelTableAgrees == NumParameters(cur) = SumOfNumel(cur)

RegisteredLoad == res.op = "load_model" /\ res.name \in Names

TooLargeMsg(name) == name \o " is too large"
NotFoundMsg(name) == name \o ".th not found"
FailedToLoadMsg(name) ==
    "Failed to load " \o name
    \o ".th, make sure the default model arguments are set correctly"

\* C1 as stated: save_model(m) followed by load_model(name, with_weights=True),
\* name being the name m was saved under, returns a model whose parameters
\* equal m's, for every m that is an instance of a registered class.
C1_RoundTripAnyModel ==
    [][(/\ res.op = "save_model" /\ res.kind = "return"
        /\ res'.op = "load_model" /\ res'.name = res.name
        /\ res'.with_weights /\ res'.kw = DefaultKwargs)
       => (res'.kind = "return" /\ cur'.params = cur.params)]_vars

\* C1 amended: when m's class is the registered class itself, m's estimated
\* size is within the budget and load_model is given the constructor arguments
\* m was built with, save_model(m) followed by load_model(name,
\* with_weights=True, **kw) returns a model whose parameters equal m's.
C1_RoundTrip ==
    [][(/\ res.op = "save_model" /\ res.kind = "return"
        /\ res'.op = "load_model" /\ res'.name = res.name /\ res'.with_weights
        /\ cur.cls = Lookup(model_factory, res.name)
        /\ res'.kw = cur.kw
        /\ BytesPerParam * ElementCount(cur.params) <= Budget)
       => (res'.kind = "return" /\ cur'.params = cur.params)]_vars

C1_Witness ==
    /\ RegisteredLoad /\ res.with_weights /\ res.kind = "return"
    /\ res.name = "mlp_deep_residual"
    /\ cur.params = files[res.name].data
    /\ \E k \in DOMAIN cur.params : cur.params[k].val = NumVals

\* C2: load_model(name) with the defaults returns a model for every registered
\* name, and its forward pass maps (b, 3, 64, 64) to (b, 6): the flattened batch
\* is (b, 12288), every affine transform gets an input of its declared width,
\* and nothing raises.
C2_DefaultForward ==
    /\ (RegisteredLoad /\ ~res.with_weights /\ res.kw = DefaultKwargs)
          => (res.kind = "return" /\ cur.cls = Lookup(model_factory, res.name))
    /\ (/\ cur.kw = DefaultKwargs
        /\ fwd.pc # "idle"
        /\ fwd.img.shape = << fwd.img.shape[1], 3, 64, 64 >>)
          => LET b == fwd.img.shape[1]
             IN /\ fwd.pc # "raised"
                /\ fwd.pc # "view" => fwd.x.shape = << b, 12288 >>
                /\ fwd.pc = "chain" /\ ChainOf(cur)[fwd.i].type = "Linear"
                      => fwd.out.shape = << b, ChainOf(cur)[fwd.i].in_features >>
                /\ fwd.pc = "input_layer"
                      => fwd.x.shape = << b, ResidualInputLayer(cur.kw).in_features >>
                /\ fwd.pc = "layer"
                      => fwd.out.shape = << b, ResidualHiddenLayers[fwd.i][1].in_features >>
                /\ fwd.pc = "output_layer"
                      => fwd.out.shape = << b, ResidualOutputLayer(cur.kw).in_features >>
                /\ fwd.pc = "done" => fwd.out.shape = << b, 6 >>

C2_Witness ==
    /\ cur.cls = "MLPClassifierDeep" /\ cur.kw = DefaultKwargs
    /\ fwd.pc = "done"
    /\ fwd.img.shape = << MaxBatch, 3, 64, 64 >>
    /\ fwd.out.shape = << MaxBatch, 6 >>

\* the state part of C3: what load_model returned or raised, against the size
\* of the model it constructed
C3_SizeGuardState ==
    RegisteredLoad =>
        LET built == Construct(Lookup(model_factory, res.name), res.kw, 1)
            bytes == BytesPerParam * ElementCount(built.params)
        IN /\ res.kind = "return"
                => (cur # NoModel /\ BytesPerParam * ElementCount(cur.params) <= Budget)
           /\ bytes > Budget => (res.kind = "AssertionError" /\ cur = NoModel)
           /\ bytes <= Budget => res.msg # TooLargeMsg(res.name)
           /\ (bytes <= Budget /\ ~res.with_weights) => res.kind = "return"
           /\ res.kind \in {"return", "AssertionError"}

\* C3: load_model returns a model only if 4 bytes times its element count is at
\* most 10 MB; a model built over 10 MB makes it raise an AssertionError and
\* return nothing; exactly 10 MB (2621440 elements) is not rejected for its size;
\* and no call of load_model writes a checkpoint file.
C3_SizeGuard ==
    /\ []C3_SizeGuardState
    /\ [][res'.op = "load_model" => files' = files]_vars

C3_Witness ==
    /\ RegisteredLoad /\ res.with_weights /\ res.kw = OverBudgetKwargs
    /\ res.name = "linear"
    /\ res.kind = "AssertionError" /\ res.msg = TooLargeMsg("linear")
    /\ res.copied = DOMAIN files["linear"].data
    /\ cur = NoModel

\* C4: load_model(name, with_weights=True) with <name>.th absent raises an
\* AssertionError naming the file and returns no model, whatever other
\* checkpoints earlier save_model calls wrote.
C4_MissingCheckpoint ==
    (RegisteredLoad /\ res.with_weights /\ ~files[res.name].exists)
        => /\ res.kind = "AssertionError"
           /\ res.msg = NotFoundMsg(res.name)
           /\ cur = NoModel

C4_Witness ==
    /\ RegisteredLoad /\ res.with_weights /\ res.name = "mlp"
    /\ ~files["mlp"].exists
    /\ files["linear"].exists /\ files["mlp_deep"].exists
    /\ res.kind = "AssertionError"

\* the checkpoint <name>.th does not fit the model load_model constructs
Mismatch(name, kw) ==
    LET built == Construct(Lookup(model_factory, name), kw, 1).params
        sd == files[name].data
    IN \/ DOMAIN sd # DOMAIN built
       \/ \E k \in DOMAIN sd \cap DOMAIN built : sd[k].shape # built[k].shape

MismatchedLoad ==
    /\ RegisteredLoad /\ res.with_weights
    /\ files[res.name].exists
    /\ Mismatch(res.name, res.kw)

FirstMatch(model) ==
    LET hits == { i \in DOMAIN model_factory : IsInstance(model.cls, model_factory[i].cls) }
    IN IF hits = {} THEN 0 ELSE CHOOSE i \in hits : \A j \in hits : i <= j

\* C6: save_model(model) writes exactly the file <n>.th of the first registry
\* entry n, in the order linear, mlp, mlp_deep, mlp_deep_residual, whose class
\* the model is an instance of; a model of no registered class makes it raise a
\* ValueError and write nothing.
C6_SaveDispatch ==
    [][res'.op = "save_model"
       => /\ [i \in DOMAIN model_factory |-> model_factory[i].name]
                = << "linear", "mlp", "mlp_deep", "mlp_deep_residual" >>
          /\ IF FirstMatch(cur) # 0
             THEN LET n == model_factory[FirstMatch(cur)].name
                  IN /\ res'.kind = "return"
                     /\ res'.name = n
                     /\ res'.msg = n \o ".th"
                     /\ files' = [files EXCEPT ![n] = [exists |-> TRUE, data |-> cur.params]]
             ELSE /\ res'.kind = "ValueError"
                  /\ files' = files]_vars

C6_Witness ==
    /\ res.op = "save_model" /\ res.kind = "return"
    /\ cur.cls = "MLPWithLinear"
    /\ res.name = "linear"
    /\ files["linear"].data = cur.params
    /\ ~files["mlp"].exists

\* C7: each registered class built with the defaults owns at most 10 MB of
\* parameters at 4 bytes each, so load_model with the defaults never raises the
\* budget failure.
C7_DefaultsWithinBudget ==
    /\ (RegisteredLoad /\ res.kw = DefaultKwargs)
          => /\ res.msg # TooLargeMsg(res.name)
             /\ ~res.with_weights
                   => /\ res.kind = "return"
                      /\ res.size.num <= BudgetMB * res.size.den
    /\ (cur.cls \in Classes /\ cur.kw = DefaultKwargs)
          => BytesPerParam * ElementCount(cur.params) <= Budget

C7_Witness ==
    /\ RegisteredLoad /\ res.kw = DefaultKwargs /\ res.kind = "return"
    /\ res.name = "mlp_deep_residual"
    /\ ElementCount(cur.params) = 2538906

\* the terms the residual forward pass is to compute
ExpectedInput ==
    Term("ReLU", "", << Term("Linear", "input_layer",
                             << Term("view", "", << Term("x", "", << >>) >>) >>) >>)
ExpectedBlock(j, t) ==
    Term("Linear", "hidden_layers." \o ToString(j - 1) \o ".2",
         << Term("ReLU", "",
                 << Term("Linear", "hidden_layers." \o ToString(j - 1) \o ".0", << t >>) >>) >>)
RECURSIVE ExpectedAfter(_)
ExpectedAfter(j) ==
    IF j = 0 THEN ExpectedInput
    ELSE Term("ReLU", "",
              << Term("add", "", << ExpectedBlock(j, ExpectedAfter(j - 1)),
                                    ExpectedAfter(j - 1) >>) >>)

C9_LinearSize ==
    (res.op = "calculate_model_size_mb" /\ res.name = "linear")
        => LET count == 3 * res.kw.h * res.kw.w * res.kw.num_classes + res.kw.num_classes
           IN /\ cur.cls = "LinearClassifier"
              /\ ElementCount(cur.params) = count
              /\ res.size = [num |-> 4 * count, den |-> 1024 * 1024]

C9_Witness ==
    /\ res.op = "calculate_model_size_mb" /\ res.name = "linear"
    /\ res.kw = [h |-> 2, w |-> 3, num_classes |-> MaxDim]
    /\ ElementCount(cur.params) = 18 * MaxDim + MaxDim

\* C10: the files start absent; load_model and the constructors change no
\* file; a save_model that raises changes no file; a save_model that returns
\* sets the one file it dispatched to to the model's parameter mapping and
\* changes no other (so <name>.th always holds what the last successful
\* save_model dispatched to name wrote); nothing changes the registry.
C10_CheckpointFrame ==
    /\ \A n \in Names : ~files[n].exists
    /\ [][/\ model_factory' = model_factory
          /\ res'.op # "save_model" => files' = files
          /\ (res'.op = "save_model" /\ res'.kind # "return") => files' = files
          /\ (res'.op = "save_model" /\ res'.kind = "return")
                => /\ res'.name \in Names
                   /\ files'[res'.name] = [exists |-> TRUE, data |-> cur.params]
                   /\ \A n \in Names \ {res'.name} : files'[n] = files[n]]_vars

C10_Witness ==
    /\ res.op = "load_model" /\ res.kind = "AssertionError"
    /\ files["linear"].exists /\ files["mlp"].exists
    /\ ~files["mlp_deep"].exists
    /\ \E k \in DOMAIN files["linear"].data : files["linear"].data[k].val = NumVals

====
